---- MODULE Spec2Model ----
(***************************************************************************)
(* Model of the MCP command-line client (src/index.ts, src/index_auth.ts). *)
(* The two files are two builds of the same program; the variable `build`  *)
(* selects which one runs.  Every JavaScript string is a sequence of atoms *)
(* (characters, or fixed substrings that the code never looks inside).     *)
(* An optional value (T | undefined) is <<>> or <<v>>.  Each action is the *)
(* synchronous stretch of code between two awaits of an external call.     *)
(***************************************************************************)
EXTENDS Integers, Sequences, FiniteSets, TLC

\* Longest content list of one model response.
MaxBlocks == 2
\* Most queries forwarded to processQuery in one session.
MaxQueries == 2

-----------------------------------------------------------------------------
(* Strings *)

\* String.prototype.endsWith
EndsWith(s, suffix) ==
    /\ Len(s) >= Len(suffix)
    /\ SubSeq(s, Len(s) - Len(suffix) + 1, Len(s)) = suffix

LowerChar(c) ==
    CASE c = "Q" -> "q"
      [] c = "U" -> "u"
      [] c = "I" -> "i"
      [] c = "T" -> "t"
      [] c = "J" -> "j"
      [] c = "S" -> "s"
      [] c = "P" -> "p"
      [] c = "Y" -> "y"
      [] OTHER -> c

toLowerCase_CaseSensitive(s) == s

\* String.prototype.toLowerCase
toLowerCase(s) == [i \in 1..Len(s) |-> LowerChar(s[i])]

RECURSIVE join_NoSeparator(_, _)
join_NoSeparator(list, sep) ==
    IF list = <<>> THEN <<>> ELSE list[1] \o join_NoSeparator(Tail(list), sep)

\* Array.prototype.join
RECURSIVE join(_, _)
join(list, sep) ==
    IF list = <<>> THEN <<>>
    ELSE IF Len(list) = 1 THEN list[1]
    ELSE list[1] \o sep \o join(Tail(list), sep)

NL == <<"\n">>

\* Array.prototype.indexOf, 1-based; 0 when absent
RECURSIVE indexOfFrom(_, _, _)
indexOfFrom(arr, x, i) ==
    IF i > Len(arr) THEN 0
    ELSE IF arr[i] = x THEN i
    ELSE indexOfFrom(arr, x, i + 1)

indexOf(arr, x) == indexOfFrom(arr, x, 1)

\* args.indexOf(flag) > -1 ? args[args.indexOf(flag) + 1] : undefined
argAfter(args, flag) ==
    LET i == indexOf(args, flag) IN
    IF i > 0 /\ i + 1 <= Len(args) THEN <<args[i + 1]>> ELSE <<>>

\* JavaScript truthiness of an optional string: undefined and "" are falsy
Truthy(opt) == opt # <<>> /\ opt[1] # <<>>

-----------------------------------------------------------------------------
(* The values the environment supplies *)

QUIT == <<"q", "u", "i", "t">>

\* Lines the user can type at the Query prompt
QueryLines ==
    { <<"h", "i">>, <<"q", "u", "i", "t", " ">> }

QuitLines ==
    { <<"q", "u", "i", "t">>, <<"Q", "U", "I", "T">>, <<"Q", "u", "i", "t">>,
      <<"q", "U", "i", "T">> }

InputLines == QueryLines \cup QuitLines

\* JSON.stringify of a tool-request input inside a template literal; <<>> is
\* an absent input
stringify(input) ==
    IF input = <<>> THEN <<"undefined">>
    ELSE IF input[1] = "argsA" THEN <<"{\"q\":1}">>
    ELSE <<"{}">>

TextBlock(t) == [type |-> "text", text |-> t]
ToolUseBlock(n, in, id) == [type |-> "tool_use", name |-> n, input |-> in, id |-> id]

Blocks ==
    { TextBlock(<<"a">>), TextBlock(<<"b">>),
      ToolUseBlock(<<"t1">>, <<"argsA">>, <<"id1">>),
      ToolUseBlock(<<"t2">>, <<>>, <<"id2">>) }

\* responseBody.content of one Bedrock reply
Responses == UNION { [1..n -> Blocks] : n \in 0..MaxBlocks }

\* result.content of one callTool reply
ToolPayloads == { <<"r1">> }

\* toolsResult.tools of the server
ToolLists == { <<>>, <<"t1", "t2">> }

-----------------------------------------------------------------------------
(* Command line, configuration files, transports *)

FlagHelp == <<"--help">>
FlagH == <<"-h">>
FlagLocal == <<"--local">>
FlagRemote == <<"--remote">>
FlagConfig == <<"--config">>
FlagUsername == <<"--username">>
FlagPassword == <<"--password">>

JsPath == <<"s", ".", "j", "s">>
PyPath == <<"s", ".", "p", "y">>
ScriptPaths ==
    { JsPath, PyPath, <<"s", ".", "s", "h">>, <<"s", ".", "J", "S">>, <<"j", "s">> }

DOCS == <<"docs">>
CPATH == <<"c.json">>

\* process.argv.slice(2)
ArgLists ==
    { <<>>, <<FlagHelp>>, <<FlagH>>, <<FlagLocal>>, <<FlagRemote>>, <<<<"--bogus">>, JsPath>> }
    \cup { <<FlagLocal, p>> : p \in ScriptPaths }
    \cup { <<FlagRemote, DOCS>>,
           <<FlagRemote, DOCS, FlagConfig, CPATH, FlagUsername, <<"u">>, FlagPassword, <<"p">> >>,
           <<FlagRemote, DOCS, FlagUsername, <<"u">> >>,
           <<FlagRemote, DOCS, FlagUsername, <<>>, FlagPassword, <<"p">> >> }

\* process.platform
Platforms == { "win32", "linux" }

\* One entry of mcpServers, as JSON.parse returns it
ServerEntry(url, command, args) == [url |-> url, command |-> command, args |-> args]

UrlOnly == ServerEntry(<<<<"https://x">>>>, <<>>, <<>>)
CommandArgs == ServerEntry(<<>>, <<<<"run-tool">>>>, <<<< <<"--port">>, <<"8080">> >>>>)
UrlAndCommand == ServerEntry(<<<<"https://x">>>>, <<<<"run-tool">>>>, <<<< <<"--port">>, <<"8080">> >>>>)
EmptyEntry == ServerEntry(<<>>, <<>>, <<>>)
CommandOnly == ServerEntry(<<>>, <<<<"run-tool">>>>, <<>>)

ServerEntries == { UrlOnly, CommandArgs, UrlAndCommand, EmptyEntry, CommandOnly }

\* A parsed configuration file: mcpServers is absent (<<>>) or a map
\* from server names to entries, held as a set of <<name, entry>> pairs
Configs ==
    { [mcpServers |-> <<>>], [mcpServers |-> <<{}>>] }
    \cup { [mcpServers |-> << {<<DOCS, e>>} >>] : e \in ServerEntries }

\* What a path holds on disk: nothing, a file that fails to read or parse,
\* or a file that parses to a configuration
Absent == [exists |-> FALSE, parsed |-> <<>>]
Unparseable == [exists |-> TRUE, parsed |-> <<>>]
Parseable(config) == [exists |-> TRUE, parsed |-> <<config>>]

FileStates == { Absent, Unparseable } \cup { Parseable(c) : c \in Configs }

defaultPaths == << <<".mcp.json">>, <<"mcp-config.json">>, <<"~/.mcp/config.json">> >>

ConfigPaths == { defaultPaths[i] : i \in 1..Len(defaultPaths) } \cup { CPATH }

RECURSIVE firstParseable_StopsAtUnparseable(_, _, _)
firstParseable_StopsAtUnparseable(paths, fs, i) ==
    IF i > Len(paths) THEN [mcpServers |-> <<{}>>]
    ELSE IF ~fs[paths[i]].exists THEN firstParseable_StopsAtUnparseable(paths, fs, i + 1)
    ELSE IF fs[paths[i]].parsed # <<>> THEN fs[paths[i]].parsed[1]
    ELSE [mcpServers |-> <<{}>>]

\* loadConfig: the for-loop over paths, and the default after it
RECURSIVE firstParseable(_, _, _)
firstParseable(paths, fs, i) ==
    IF i > Len(paths) THEN [mcpServers |-> <<{}>>]
    ELSE IF fs[paths[i]].exists /\ fs[paths[i]].parsed # <<>> THEN fs[paths[i]].parsed[1]
    ELSE firstParseable(paths, fs, i + 1)

loadConfig(configPath, fs) ==
    LET paths == IF Truthy(configPath) THEN <<configPath[1]>> ELSE defaultPaths
    IN  firstParseable(paths, fs, 1)

\* config.mcpServers[serverName], <<>> when undefined
lookupServer(config, serverName) ==
    IF config.mcpServers = <<>> THEN <<>>
    ELSE LET hits == { p \in config.mcpServers[1] : p[1] = serverName }
         IN  IF hits = {} THEN <<>> ELSE <<(CHOOSE p \in hits : TRUE)[2]>>

Transport(command, args, env) == [command |-> command, args |-> args, env |-> env]

\* Outcome of the synchronous part of a connectTo... call: either an error
\* is thrown, or this.transport is assigned and mcp.connect is awaited
Thrown(err, out, prompts) ==
    [kind |-> "throw", error |-> err, transport |-> <<>>, console |-> out, prompts |-> prompts]
Opened(t, out, prompts) ==
    [kind |-> "connect", error |-> "none", transport |-> <<t>>, console |-> out, prompts |-> prompts]

connectToLocalServer_NoCheck(serverScriptPath, platform) ==
    LET isPy == EndsWith(serverScriptPath, <<".", "p", "y">>)
        command == IF isPy THEN (IF platform = "win32" THEN <<"python">> ELSE <<"python3">>)
                   ELSE <<"node">>
    IN  Opened(Transport(<<command>>, << <<serverScriptPath>> >>, <<>>), {}, 0)

connectToLocalServer(serverScriptPath, platform) ==
    LET isJs == EndsWith(serverScriptPath, <<".", "j", "s">>)
        isPy == EndsWith(serverScriptPath, <<".", "p", "y">>)
        command == IF isPy THEN (IF platform = "win32" THEN <<"python">> ELSE <<"python3">>)
                   ELSE <<"node">>
    IN  IF ~isJs /\ ~isPy THEN Thrown("BadExtension", {}, 0)
        ELSE Opened(Transport(<<command>>, << <<serverScriptPath>> >>, <<>>), {}, 0)

\* src/index.ts: command and args are used as they are
connectToRemoteServerPlain(serverName, configPath, fs) ==
    LET config == loadConfig(configPath, fs)
        found == lookupServer(config, serverName)
    IN  IF found = <<>> THEN Thrown("ServerNotFound", {}, 0)
        ELSE LET serverConfig == found[1] IN
             IF serverConfig.args = <<>>
             THEN Thrown("TypeError", {"Connecting to remote server"}, 0)
             ELSE Opened(Transport(serverConfig.command, serverConfig.args, <<>>),
                         {"Connecting to remote server", "Command"}, 0)

connectToRemoteServerAuth_ArgsUnchecked(serverName, configPath, username, password, fs, typedUser, typedPass) ==
    LET config == loadConfig(configPath, fs)
        found == lookupServer(config, serverName)
    IN  IF found = <<>> THEN Thrown("ServerNotFound", {}, 0)
        ELSE LET serverConfig == found[1] IN
             IF Truthy(serverConfig.url)
             THEN LET githubUsername == IF Truthy(username) THEN username[1] ELSE typedUser
                      githubPassword == IF Truthy(password) THEN password[1] ELSE typedPass
                      prompts == (IF Truthy(username) THEN 0 ELSE 1)
                                 + (IF Truthy(password) THEN 0 ELSE 1)
                  IN  Opened(Transport(<< <<"npx">> >>,
                                       << << <<"mcp-remote">>, serverConfig.url[1] >> >>,
                                       << [GITHUB_USERNAME |-> githubUsername,
                                           GITHUB_TOKEN |-> githubPassword] >>),
                             {"Connecting to remote server", "Using mcp-remote"}, prompts)
             ELSE IF Truthy(serverConfig.command)
             THEN Opened(Transport(serverConfig.command, serverConfig.args, <<>>),
                         {"Connecting to remote server", "Command"}, 0)
             ELSE Thrown("InvalidConfig", {"Connecting to remote server"}, 0)

connectToRemoteServerAuth_CommandFirst(serverName, configPath, username, password, fs, typedUser, typedPass) ==
    LET config == loadConfig(configPath, fs)
        found == lookupServer(config, serverName)
    IN  IF found = <<>> THEN Thrown("ServerNotFound", {}, 0)
        ELSE LET serverConfig == found[1] IN
             IF Truthy(serverConfig.command) /\ serverConfig.args # <<>>
             THEN Opened(Transport(serverConfig.command, serverConfig.args, <<>>),
                         {"Connecting to remote server", "Command"}, 0)
             ELSE IF Truthy(serverConfig.url)
             THEN LET githubUsername == IF Truthy(username) THEN username[1] ELSE typedUser
                      githubPassword == IF Truthy(password) THEN password[1] ELSE typedPass
                      prompts == (IF Truthy(username) THEN 0 ELSE 1)
                                 + (IF Truthy(password) THEN 0 ELSE 1)
                  IN  Opened(Transport(<< <<"npx">> >>,
                                       << << <<"mcp-remote">>, serverConfig.url[1] >> >>,
                                       << [GITHUB_USERNAME |-> githubUsername,
                                           GITHUB_TOKEN |-> githubPassword] >>),
                             {"Connecting to remote server", "Using mcp-remote"}, prompts)
             ELSE Thrown("InvalidConfig", {"Connecting to remote server"}, 0)

connectToRemoteServerAuth_AlwaysPrompts(serverName, configPath, username, password, fs, typedUser, typedPass) ==
    LET config == loadConfig(configPath, fs)
        found == lookupServer(config, serverName)
    IN  IF found = <<>> THEN Thrown("ServerNotFound", {}, 0)
        ELSE LET serverConfig == found[1] IN
             IF Truthy(serverConfig.url)
             THEN LET githubUsername == typedUser
                      githubPassword == typedPass
                      prompts == 2
                  IN  Opened(Transport(<< <<"npx">> >>,
                                       << << <<"mcp-remote">>, serverConfig.url[1] >> >>,
                                       << [GITHUB_USERNAME |-> githubUsername,
                                           GITHUB_TOKEN |-> githubPassword] >>),
                             {"Connecting to remote server", "Using mcp-remote"}, prompts)
             ELSE IF Truthy(serverConfig.command) /\ serverConfig.args # <<>>
             THEN Opened(Transport(serverConfig.command, serverConfig.args, <<>>),
                         {"Connecting to remote server", "Command"}, 0)
             ELSE Thrown("InvalidConfig", {"Connecting to remote server"}, 0)

\* src/index_auth.ts: url entries go through mcp-remote with credentials
connectToRemoteServerAuth(serverName, configPath, username, password, fs, typedUser, typedPass) ==
    LET config == loadConfig(configPath, fs)
        found == lookupServer(config, serverName)
    IN  IF found = <<>> THEN Thrown("ServerNotFound", {}, 0)
        ELSE LET serverConfig == found[1] IN
             IF Truthy(serverConfig.url)
             THEN LET githubUsername == IF Truthy(username) THEN username[1] ELSE typedUser
                      githubPassword == IF Truthy(password) THEN password[1] ELSE typedPass
                      prompts == (IF Truthy(username) THEN 0 ELSE 1)
                                 + (IF Truthy(password) THEN 0 ELSE 1)
                  IN  Opened(Transport(<< <<"npx">> >>,
                                       << << <<"mcp-remote">>, serverConfig.url[1] >> >>,
                                       << [GITHUB_USERNAME |-> githubUsername,
                                           GITHUB_TOKEN |-> githubPassword] >>),
                             {"Connecting to remote server", "Using mcp-remote"}, prompts)
             ELSE IF Truthy(serverConfig.command) /\ serverConfig.args # <<>>
             THEN Opened(Transport(serverConfig.command, serverConfig.args, <<>>),
                         {"Connecting to remote server", "Command"}, 0)
             ELSE Thrown("InvalidConfig", {"Connecting to remote server"}, 0)

\* main up to its first await of an external call
startup(bld, args, platform, fs, typedUser, typedPass) ==
    IF Len(args) = 0 \/ args[1] = FlagHelp \/ args[1] = FlagH
    THEN [kind |-> "return", error |-> "none", transport |-> <<>>,
          console |-> {"Usage"}, prompts |-> 0]
    ELSE IF args[1] = FlagLocal /\ Len(args) > 1
    THEN connectToLocalServer(args[2], platform)
    ELSE IF args[1] = FlagRemote /\ Len(args) > 1
    THEN IF bld = "index"
         THEN connectToRemoteServerPlain(args[2], argAfter(args, FlagConfig), fs)
         ELSE connectToRemoteServerAuth(args[2], argAfter(args, FlagConfig),
                                        argAfter(args, FlagUsername), argAfter(args, FlagPassword),
                                        fs, typedUser, typedPass)
    ELSE [kind |-> "return", error |-> "none", transport |-> <<>>,
          console |-> {"Invalid arguments"}, prompts |-> 0]

-----------------------------------------------------------------------------
(* The conversation engine's pure parts *)

UserText(query) == [role |-> "user", content |-> [string |-> query]]

AssistantToolUse_AsUser(toolName, toolArgs, toolId) ==
    [role |-> "user",
     content |-> [blocks |-> << ToolUseBlock(toolName, toolArgs, toolId) >>]]

AssistantToolUse(toolName, toolArgs, toolId) ==
    [role |-> "assistant",
     content |-> [blocks |-> << ToolUseBlock(toolName, toolArgs, toolId) >>]]

UserToolResult_OtherId(toolId, payload) ==
    [role |-> "user",
     content |-> [blocks |-> << [type |-> "tool_result", tool_use_id |-> <<"id0">>,
                                  content |-> payload] >>]]

UserToolResult(toolId, payload) ==
    [role |-> "user",
     content |-> [blocks |-> << [type |-> "tool_result", tool_use_id |-> toolId,
                                  content |-> payload] >>]]

\* `[Calling tool ${toolName} with args ${JSON.stringify(toolArgs)}]`
rendered(toolName, toolArgs) ==
    <<"[Calling tool ">> \o toolName \o <<" with args ">> \o stringify(toolArgs) \o <<"]">>

ModelCall_NoTools(msgs, toolList) == [kind |-> "model", transcript |-> Len(msgs), tools |-> <<>>]

\* One invokeClaudeModel call: the length of the transcript and the tools passed
ModelCall(msgs, toolList) == [kind |-> "model", transcript |-> Len(msgs), tools |-> toolList]
ToolCall_NoArguments(toolName, toolArgs) == [kind |-> "tool", name |-> toolName, arguments |-> <<>>]

\* One mcp.callTool call
ToolCall(toolName, toolArgs) == [kind |-> "tool", name |-> toolName, arguments |-> toolArgs]

\* The for-loop over response.content from block i on, up to the next
\* tool_use block (where callTool is awaited) or the end of the list
RECURSIVE scan(_, _, _)
scan(content, i, ft) ==
    IF i > Len(content) THEN [idx |-> i, finalText |-> ft]
    ELSE IF content[i].type = "text" THEN scan(content, i + 1, Append(ft, content[i].text))
    ELSE IF content[i].type = "tool_use" THEN [idx |-> i, finalText |-> ft]
    ELSE scan(content, i + 1, ft)

followUpText_AllText(ft, followUp) == scan(followUp, 1, ft).finalText

\* What processQuery reads of a follow-up response: the type of its first
\* block, and its text when that type is text
firstBlock(followUp) ==
    [type |-> followUp[1].type,
     text |-> IF followUp[1].type = "text" THEN followUp[1].text ELSE <<>>]

\* What the first block of a follow-up response adds to finalText
followUpText(ft, followUp) ==
    IF followUp[1].type = "text" THEN Append(ft, followUp[1].text) ELSE ft

ToolUseCount(content) == Cardinality({ i \in 1..Len(content) : content[i].type = "tool_use" })

-----------------------------------------------------------------------------
(* State *)

VARIABLES
    build,          \* "index" (src/index.ts) or "index_auth" (src/index_auth.ts)
    argv,           \* process.argv.slice(2)
    pc,             \* the await the single thread of control is parked at
    transport,      \* this.transport: <<>> is null
    tools,          \* this.tools
    console,        \* what console.log / console.error have printed (tags)
    thrown,         \* the error that reached main's try block, "none" if none
    connectCalls,   \* calls of mcp.connect
    listToolsCalls, \* calls of mcp.listTools
    closeCalls,     \* calls of mcp.close
    promptCalls,    \* calls of promptForInput
    exitCode,       \* <<>> while running, <<code>> after process.exit(code)
    disk,           \* connectToRemoteServer: what loadConfig found at each path
    config,         \* connectToRemoteServer: <<>> or <<the configuration loaded>>
    serverConfig,   \* connectToRemoteServer: <<>> or <<the entry selected>>
    message,        \* chatLoop: the line rl.question returned last
    queriesStarted, \* calls of processQuery
    messages,       \* processQuery: the transcript
    response,       \* processQuery: response.content of the first model call
    idx,            \* processQuery: position of the for-loop in response.content
    finalText,      \* processQuery: finalText
    qstatus,        \* outcome of the latest processQuery call
    answer,         \* <<>> or <<the string processQuery returned>>
    calls,          \* model and tool calls issued by the latest processQuery call
    firsts,         \* content[0] of the follow-up responses received by that call
    lastHadToolUse, \* whether the model response received last had a tool_use block
    lastEmpty       \* whether the model response received last had no block at all

vars == << build, argv, pc, transport, tools, console, thrown, connectCalls,
           listToolsCalls, closeCalls, promptCalls, exitCode, disk, config,
           serverConfig, message, queriesStarted, messages, response, idx,
           finalText, qstatus, answer, calls, firsts, lastHadToolUse, lastEmpty >>

sessionVars == << build, argv, transport, tools, connectCalls, listToolsCalls, promptCalls >>
queryVars == << message, queriesStarted, messages, response, idx, finalText, qstatus,
                answer, calls, firsts, lastHadToolUse, lastEmpty >>
connectLocals == << disk, config, serverConfig >>

Init ==
    /\ build \in { "index", "index_auth" }
    /\ argv \in ArgLists
    /\ pc = "start"
    /\ transport = <<>>
    /\ tools = <<>>
    /\ console = {}
    /\ thrown = "none"
    /\ connectCalls = 0
    /\ listToolsCalls = 0
    /\ closeCalls = 0
    /\ promptCalls = 0
    /\ exitCode = <<>>
    /\ disk = <<>>
    /\ config = <<>>
    /\ serverConfig = <<>>
    /\ message = <<>>
    /\ queriesStarted = 0
    /\ messages = <<>>
    /\ response = <<>>
    /\ idx = 0
    /\ finalText = <<>>
    /\ qstatus = "none"
    /\ answer = <<>>
    /\ calls = <<>>
    /\ firsts = <<>>
    /\ lastHadToolUse = FALSE
    /\ lastEmpty = FALSE

-----------------------------------------------------------------------------
(* main, connection, cleanup *)

cleanup_NoClose ==
    /\ closeCalls' = closeCalls
    /\ pc' = "closing"

\* main's finally block: cleanup() calls mcp.close() and awaits it
cleanup ==
    /\ closeCalls' = closeCalls + 1
    /\ pc' = "closing"

\* main's catch block: only src/index_auth.ts has one
mainCatch(printed) ==
    console' = console \cup printed \cup (IF build = "index_auth" THEN {"Error:"} ELSE {})

propagate_Swallowed(err, printed) ==
    /\ thrown' = "none"
    /\ mainCatch(printed)
    /\ cleanup

\* An error propagates out of main's try block
propagate(err, printed) ==
    /\ thrown' = err
    /\ mainCatch(printed)
    /\ cleanup

IsRemote == Len(argv) > 1 /\ argv[1] = FlagRemote

\* The files loadConfig can meet.  With --config the named file is anything
\* and the default files are all absent or all hold the same configuration;
\* without it the three default files are anything.
FsChoices ==
    IF ~IsRemote THEN { [p \in ConfigPaths |-> Absent] }
    ELSE IF Truthy(argAfter(argv, FlagConfig))
    THEN { [p \in ConfigPaths |-> IF p = CPATH THEN f ELSE d] :
              f \in FileStates,
              d \in { Absent, Parseable([mcpServers |-> << {<<DOCS, CommandArgs>>} >>]) } }
    ELSE { [p \in ConfigPaths |-> IF p = CPATH THEN Absent ELSE g[p]] :
              g \in [ConfigPaths \ {CPATH} -> FileStates] }

TypedChoices ==
    IF build = "index_auth" /\ IsRemote
    THEN { <<"typed">> } ELSE { <<>> }

main ==
    /\ pc = "start"
    /\ \E platform \in Platforms, fs \in FsChoices, typedUser \in TypedChoices,
          typedPass \in TypedChoices :
         LET o == startup(build, argv, platform, fs, typedUser, typedPass) IN
         /\ promptCalls' = promptCalls + o.prompts
         /\ transport' = o.transport
         /\ IF IsRemote
            THEN /\ disk' = << fs >>
                 /\ config' = << loadConfig(argAfter(argv, FlagConfig), fs) >>
                 /\ serverConfig' = lookupServer(config'[1], argv[2])
            ELSE UNCHANGED connectLocals
         /\ IF o.kind = "return"
            THEN /\ console' = console \cup o.console
                 /\ cleanup
                 /\ UNCHANGED << thrown, connectCalls >>
            ELSE IF o.kind = "throw"
            THEN /\ propagate(o.error, o.console)
                 /\ UNCHANGED connectCalls
            ELSE /\ console' = console \cup o.console
                 /\ connectCalls' = connectCalls + 1
                 /\ pc' = "connecting"
                 /\ UNCHANGED << thrown, closeCalls >>
    /\ UNCHANGED << build, argv, tools, listToolsCalls, exitCode >>
    /\ UNCHANGED queryVars

\* connectWithTransport's catch block: only src/index_auth.ts has one
connectFailure ==
    IF build = "index_auth" THEN {"Failed to connect to MCP server"} ELSE {}

mcpConnectReturns ==
    /\ UNCHANGED connectLocals
    /\ pc = "connecting"
    /\ listToolsCalls' = listToolsCalls + 1
    /\ pc' = "listing"
    /\ UNCHANGED << build, argv, transport, tools, console, thrown, connectCalls,
                    closeCalls, promptCalls, exitCode >>
    /\ UNCHANGED queryVars

mcpConnectFails ==
    /\ UNCHANGED connectLocals
    /\ pc = "connecting"
    /\ propagate("ConnectFailed", connectFailure)
    /\ UNCHANGED << sessionVars, exitCode >>
    /\ UNCHANGED queryVars

\* listTools returns and so does connectTo...Server, whose locals go out of
\* scope; chatLoop starts and waits at rl.question
listToolsReturns ==
    /\ pc = "listing"
    /\ disk' = <<>>
    /\ config' = <<>>
    /\ serverConfig' = <<>>
    /\ \E toolList \in ToolLists : tools' = toolList
    /\ console' = console \cup {"Connected to server with tools", "MCP Client Started"}
    /\ pc' = "prompt"
    /\ UNCHANGED << build, argv, transport, thrown, connectCalls, listToolsCalls,
                    closeCalls, promptCalls, exitCode >>
    /\ UNCHANGED queryVars

listToolsFails ==
    /\ UNCHANGED connectLocals
    /\ pc = "listing"
    /\ propagate("ListToolsFailed", connectFailure)
    /\ UNCHANGED << sessionVars, exitCode >>
    /\ UNCHANGED queryVars

cleanupReturns_ExitOne ==
    /\ UNCHANGED connectLocals
    /\ pc = "closing"
    /\ exitCode' = <<1>>
    /\ pc' = "exited"
    /\ UNCHANGED << sessionVars, console, thrown, closeCalls >>
    /\ UNCHANGED queryVars

\* mcp.close() returns; process.exit(0)
cleanupReturns ==
    /\ UNCHANGED connectLocals
    /\ pc = "closing"
    /\ exitCode' = <<0>>
    /\ pc' = "exited"
    /\ UNCHANGED << sessionVars, console, thrown, closeCalls >>
    /\ UNCHANGED queryVars

-----------------------------------------------------------------------------
(* chatLoop and processQuery *)

\* An error leaves processQuery: chatLoop's finally closes readline, and the
\* error goes on to main
abortQuery(err, printed) ==
    /\ qstatus' = "failed"
    /\ propagate(err, printed)

\* The for-loop of processQuery runs on from block i with finalText ft:
\* it stops at the next tool_use block, whose callTool is awaited, or it
\* ends, processQuery returns, chatLoop prints the answer and prompts again
resume(content, i, ft) ==
    LET s == scan(content, i, ft) IN
    /\ idx' = s.idx
    /\ finalText' = s.finalText
    /\ IF s.idx > Len(content)
       THEN /\ answer' = << join(s.finalText, NL) >>
            /\ qstatus' = "done"
            /\ console' = console \cup {"answer"}
            /\ pc' = "prompt"
            /\ calls' = calls
       ELSE /\ calls' = Append(calls, ToolCall(content[s.idx].name, content[s.idx].input))
            /\ pc' = "awaitTool"
            /\ UNCHANGED << answer, qstatus, console >>

processQuery_CarriedTranscript(query) ==
    /\ messages' = Append(messages, UserText(query))
    /\ calls' = << ModelCall(messages', tools) >>
    /\ queriesStarted' = queriesStarted + 1
    /\ response' = <<>>
    /\ idx' = 0
    /\ finalText' = <<>>
    /\ qstatus' = "running"
    /\ answer' = <<>>
    /\ firsts' = <<>>
    /\ lastHadToolUse' = FALSE
    /\ lastEmpty' = FALSE
    /\ pc' = "awaitModel"

\* processQuery up to its first await: a new transcript and the first model call
processQuery(query) ==
    /\ messages' = << UserText(query) >>
    /\ calls' = << ModelCall(messages', tools) >>
    /\ queriesStarted' = queriesStarted + 1
    /\ response' = <<>>
    /\ idx' = 0
    /\ finalText' = <<>>
    /\ qstatus' = "running"
    /\ answer' = <<>>
    /\ firsts' = <<>>
    /\ lastHadToolUse' = FALSE
    /\ lastEmpty' = FALSE
    /\ pc' = "awaitModel"

\* The locals of the previous loop iteration are out of scope
forget ==
    /\ messages' = <<>>
    /\ response' = <<>>
    /\ idx' = 0
    /\ finalText' = <<>>
    /\ qstatus' = "none"
    /\ answer' = <<>>
    /\ calls' = <<>>
    /\ firsts' = <<>>
    /\ lastHadToolUse' = FALSE
    /\ lastEmpty' = FALSE

\* rl.question returns a line
chatLoop ==
    /\ UNCHANGED connectLocals
    /\ pc = "prompt"
    /\ \E line \in InputLines :
         /\ message' = line
         /\ IF toLowerCase(line) = QUIT
            THEN /\ cleanup
                 /\ forget
                 /\ UNCHANGED queriesStarted
            ELSE /\ queriesStarted < MaxQueries
                 /\ processQuery(line)
                 /\ UNCHANGED closeCalls
    /\ UNCHANGED << sessionVars, console, thrown, exitCode >>

firstResponse_RecordsReply ==
    /\ UNCHANGED connectLocals
    /\ pc = "awaitModel"
    /\ \E content \in Responses :
         /\ response' = content
         /\ lastHadToolUse' = (ToolUseCount(content) > 0)
         /\ lastEmpty' = (Len(content) = 0)
         /\ messages' = Append(messages, [role |-> "assistant", content |-> [blocks |-> content]])
         /\ resume(content, 1, <<>>)
    /\ UNCHANGED << sessionVars, thrown, closeCalls, exitCode, message, queriesStarted,
                    firsts >>

\* The first model call returns
firstResponse ==
    /\ UNCHANGED connectLocals
    /\ pc = "awaitModel"
    /\ \E content \in Responses :
         /\ response' = content
         /\ lastHadToolUse' = (ToolUseCount(content) > 0)
         /\ lastEmpty' = (Len(content) = 0)
         /\ resume(content, 1, <<>>)
    /\ UNCHANGED << sessionVars, thrown, closeCalls, exitCode, message, queriesStarted,
                    messages, firsts >>

callToolReturns_NoFollowUp ==
    /\ UNCHANGED connectLocals
    /\ pc = "awaitTool"
    /\ \E payload \in ToolPayloads :
         LET toolName == response[idx].name
             toolArgs == response[idx].input
             toolId == response[idx].id
         IN  /\ messages' = messages \o << AssistantToolUse(toolName, toolArgs, toolId),
                                           UserToolResult(toolId, payload) >>
             /\ resume(response, idx + 1, Append(finalText, rendered(toolName, toolArgs)))
    /\ UNCHANGED << sessionVars, thrown, closeCalls, exitCode, message,
                    queriesStarted, response, firsts, lastHadToolUse, lastEmpty >>

\* callTool returns: the two messages are pushed and the follow-up model
\* call is issued
callToolReturns ==
    /\ UNCHANGED connectLocals
    /\ pc = "awaitTool"
    /\ \E payload \in ToolPayloads :
         LET toolName == response[idx].name
             toolArgs == response[idx].input
             toolId == response[idx].id
         IN  /\ finalText' = Append(finalText, rendered(toolName, toolArgs))
             /\ messages' = messages \o << AssistantToolUse(toolName, toolArgs, toolId),
                                           UserToolResult(toolId, payload) >>
             /\ calls' = Append(calls, ModelCall(messages', tools))
    /\ pc' = "awaitFollowUp"
    /\ UNCHANGED << sessionVars, console, thrown, closeCalls, exitCode, message,
                    queriesStarted, response, idx, qstatus, answer, firsts,
                    lastHadToolUse, lastEmpty >>

callToolFails ==
    /\ UNCHANGED connectLocals
    /\ pc = "awaitTool"
    /\ abortQuery("ToolFailed", {})
    /\ UNCHANGED << sessionVars, exitCode, message, queriesStarted, messages, response,
                    idx, finalText, answer, calls, firsts, lastHadToolUse, lastEmpty >>

followUpResponse_SkipsEmpty ==
    /\ UNCHANGED connectLocals
    /\ pc = "awaitFollowUp"
    /\ \E followUp \in Responses :
         /\ lastHadToolUse' = (ToolUseCount(followUp) > 0)
         /\ lastEmpty' = (Len(followUp) = 0)
         /\ IF Len(followUp) = 0
            THEN /\ firsts' = firsts
                 /\ resume(response, idx + 1, finalText)
            ELSE /\ firsts' = Append(firsts, firstBlock(followUp))
                 /\ resume(response, idx + 1, followUpText(finalText, followUp))
    /\ UNCHANGED << sessionVars, thrown, closeCalls, exitCode, message, queriesStarted,
                    messages, response >>

followUpResponse_SameBlock ==
    /\ UNCHANGED connectLocals
    /\ pc = "awaitFollowUp"
    /\ \E followUp \in Responses :
         /\ lastHadToolUse' = (ToolUseCount(followUp) > 0)
         /\ lastEmpty' = (Len(followUp) = 0)
         /\ IF Len(followUp) = 0
            THEN /\ abortQuery("TypeError", {})
                 /\ UNCHANGED << idx, finalText, answer, calls, firsts >>
            ELSE /\ firsts' = Append(firsts, firstBlock(followUp))
                 /\ resume(response, idx, followUpText(finalText, followUp))
                 /\ UNCHANGED << thrown, closeCalls >>
    /\ UNCHANGED << sessionVars, exitCode, message, queriesStarted, messages, response >>

\* A follow-up model call returns
followUpResponse ==
    /\ UNCHANGED connectLocals
    /\ pc = "awaitFollowUp"
    /\ \E followUp \in Responses :
         /\ lastHadToolUse' = (ToolUseCount(followUp) > 0)
         /\ lastEmpty' = (Len(followUp) = 0)
         /\ IF Len(followUp) = 0
            THEN /\ abortQuery("TypeError", {})
                 /\ UNCHANGED << idx, finalText, answer, calls, firsts >>
            ELSE /\ firsts' = Append(firsts, firstBlock(followUp))
                 /\ resume(response, idx + 1, followUpText(finalText, followUp))
                 /\ UNCHANGED << thrown, closeCalls >>
    /\ UNCHANGED << sessionVars, exitCode, message, queriesStarted, messages, response >>

\* bedrock.send rejects: invokeClaudeModel logs and rethrows
invokeClaudeModelFails ==
    /\ UNCHANGED connectLocals
    /\ pc \in { "awaitModel", "awaitFollowUp" }
    /\ abortQuery("ModelFailed", {"Error invoking Bedrock model"})
    /\ UNCHANGED << sessionVars, exitCode, message, queriesStarted, messages, response,
                    idx, finalText, answer, calls, firsts, lastHadToolUse, lastEmpty >>

Next ==
    \/ main
    \/ mcpConnectReturns
    \/ mcpConnectFails
    \/ listToolsReturns
    \/ listToolsFails
    \/ chatLoop
    \/ firstResponse
    \/ callToolReturns
    \/ callToolFails
    \/ followUpResponse
    \/ invokeClaudeModelFails
    \/ cleanupReturns

Spec == Init /\ [][Next]_vars

\* processQuery does not depend on how the transport was built: one local
\* and one remote start of each build
QueryArgLists == { << FlagLocal, JsPath >>, << FlagRemote, DOCS >> }
FairInit == Init /\ argv \in QueryArgLists

\* Every pending bedrock.send and every pending mcp.callTool settles: the
\* promise resolves or rejects
FairSpec ==
    /\ FairInit /\ [][Next]_vars
    /\ WF_vars(firstResponse \/ followUpResponse \/ invokeClaudeModelFails)
    /\ WF_vars(callToolReturns \/ callToolFails)

-----------------------------------------------------------------------------
(* Properties *)

IsModelCall(c) == c.kind = "model"
IsToolCall(c) == c.kind = "tool"
ModelCallCount == Len(SelectSeq(calls, IsModelCall))
ToolCallCount == Len(SelectSeq(calls, IsToolCall))

TextOnly(content) == \A i \in 1..Len(content) : content[i].type = "text"

\* The newline-joined texts of a content list whose texts are single atoms
Lines(content) ==
    [k \in 1..(IF Len(content) = 0 THEN 0 ELSE 2 * Len(content) - 1) |->
        IF k % 2 = 1 THEN content[(k + 1) \div 2].text[1] ELSE "\n"]

IsToolResult(m) ==
    /\ "blocks" \in DOMAIN m.content
    /\ m.content.blocks[1].type = "tool_result"

IsToolRequest(m) ==
    /\ m.role = "assistant"
    /\ "blocks" \in DOMAIN m.content
    /\ m.content.blocks[1].type = "tool_use"

\* C1: after a first model response that holds only text blocks the query is
\* over at once: it waits for no tool and no follow-up, and when it returned
\* it made exactly one model call and no tool call, left the transcript at
\* its one user message, and returned the texts, in response order, joined
\* by newlines.
C1_TextOnlyOneRound ==
    TextOnly(response) =>
        /\ pc \notin { "awaitTool", "awaitFollowUp" }
        /\ qstatus = "done" =>
             /\ ModelCallCount = 1
             /\ ToolCallCount = 0
             /\ messages = << UserText(message) >>
             /\ answer = << Lines(response) >>

C1_Witness ==
    /\ qstatus = "done"
    /\ Len(response) = 2
    /\ TextOnly(response)
    /\ response[1] # response[2]

\* C2: when the first model response holds exactly one tool-request block, a
\* query that returns has made exactly one tool call, with that block's name
\* and arguments, has appended exactly two transcript entries (the assistant
\* tool-request, then the user tool-result with the same correlation id) and
\* has made exactly one follow-up model call; no state of such a query has
\* more calls or more entries than that.
C2_OneToolRequest ==
    ToolUseCount(response) = 1 =>
        LET b == response[CHOOSE i \in 1..Len(response) : response[i].type = "tool_use"] IN
        /\ ToolCallCount <= 1
        /\ ModelCallCount <= 2
        /\ Len(messages) \in { 1, 3 }
        /\ qstatus = "done" =>
             /\ SelectSeq(calls, IsToolCall)
                    = << [kind |-> "tool", name |-> b.name, arguments |-> b.input] >>
             /\ ModelCallCount = 2
             /\ Len(messages) = 3
             /\ messages[1] = UserText(message)
             /\ messages[2] = [role |-> "assistant", content |-> [blocks |-> << b >>]]
             /\ messages[3].role = "user"
             /\ Len(messages[3].content.blocks) = 1
             /\ messages[3].content.blocks[1].type = "tool_result"
             /\ messages[3].content.blocks[1].tool_use_id = b.id

C2_Witness ==
    /\ qstatus = "done"
    /\ ToolUseCount(response) = 1
    /\ Len(response) = 2
    /\ response[2].type = "tool_use"
    /\ response[2].input # <<>>

\* C3: every tool-invocation-result message of the transcript comes right
\* after an assistant tool-invocation-request message and carries that
\* request's correlation id.
C3_CorrelationIdRoundTrip ==
    \A i \in 1..Len(messages) :
        IsToolResult(messages[i]) =>
            /\ i > 1
            /\ IsToolRequest(messages[i - 1])
            /\ messages[i].content.blocks[1].tool_use_id = messages[i - 1].content.blocks[1].id

C3_Witness ==
    /\ Len(messages) = 5
    /\ IsToolResult(messages[3])
    /\ IsToolResult(messages[5])
    /\ messages[3].content.blocks[1].tool_use_id # messages[5].content.blocks[1].tool_use_id

\* C4: a query reaches Done only after a model response that holds no
\* tool-request block (every tool request of every response is run first).
C4_DoneOnlyAfterTextOnlyResponse ==
    qstatus = "done" => ~lastHadToolUse

\* C5: a model call or tool call that fails during a query does not end the
\* session: the loop is back at the Query prompt.
C5_FailureReprompts ==
    qstatus = "failed" => (pc = "prompt" /\ exitCode = <<>>)

\* C6: once a model call or tool call of a query has failed, the query
\* issues no further model or tool call, returns no answer, and the failure
\* has been propagated to the caller.
C6_FailureAbortsQuery ==
    [][ qstatus' = "failed" =>
            /\ calls' = calls
            /\ answer' = <<>>
            /\ thrown' \in { "ModelFailed", "ToolFailed", "TypeError" }
            /\ pc' \notin { "awaitModel", "awaitTool", "awaitFollowUp" } ]_vars

C6_Witness ==
    /\ qstatus = "failed"
    /\ thrown = "ToolFailed"
    /\ ToolCallCount = 2
    /\ pc = "exited"

\* C7: at the first model call of every query the transcript is exactly one
\* user message holding that query's text, whatever happened in the queries
\* before it.
C7_FreshTranscript ==
    pc = "awaitModel" =>
        /\ messages = << UserText(message) >>
        /\ calls = << [kind |-> "model", transcript |-> 1, tools |-> tools] >>

C7_Witness ==
    /\ pc = "awaitModel"
    /\ queriesStarted = 2
    /\ message = <<"q", "u", "i", "t", " ">>

\* C8: the process never exits without connector close() having been
\* called, on the help and invalid-argument paths too.
C8_CloseBeforeExit ==
    exitCode # <<>> => closeCalls >= 1

C8_Witness ==
    /\ pc = "exited"
    /\ exitCode = <<0>>
    /\ connectCalls = 0
    /\ "Invalid arguments" \in console

IsQuitAnyCase(line) ==
    /\ Len(line) = 4
    /\ line[1] \in { "q", "Q" }
    /\ line[2] \in { "u", "U" }
    /\ line[3] \in { "i", "I" }
    /\ line[4] \in { "t", "T" }

\* C9: when the line read at the Query prompt is quit in any letter-casing,
\* the loop exits: processQuery is not called for it, and no model or tool
\* call is issued from then on.
C9_QuitExitsWithoutEngineCall ==
    [][ IsQuitAnyCase(message') =>
            /\ queriesStarted' = queriesStarted
            /\ calls' = <<>>
            /\ pc' \in { "closing", "exited" } ]_vars

C9_Witness ==
    /\ message = <<"q", "U", "i", "T">>
    /\ queriesStarted = 1
    /\ pc = "exited"

RecognizedExtension(path) ==
    /\ Len(path) >= 3
    /\ << path[Len(path) - 2], path[Len(path) - 1], path[Len(path)] >>
           \in { <<".", "j", "s">>, <<".", "p", "y">> }

\* C10: --local with a script path whose extension is neither .js nor .py
\* fails with an error; the transport stays unset and neither connect nor
\* listTools is ever called.
C10_LocalRejectsUnknownExtension ==
    (pc # "start" /\ Len(argv) > 1 /\ argv[1] = FlagLocal /\ ~RecognizedExtension(argv[2])) =>
        /\ thrown = "BadExtension"
        /\ transport = <<>>
        /\ connectCalls = 0
        /\ listToolsCalls = 0

C10_Witness ==
    /\ pc = "exited"
    /\ argv = << FlagLocal, <<"s", ".", "J", "S">> >>
    /\ thrown = "BadExtension"

HasUrl(entry) == entry.url # <<>>
HasCommandArgs(entry) == entry.command # <<>> /\ entry.args # <<>>

\* C11: in src/index_auth.ts a selected entry with neither url nor
\* command+args fails with the configuration error and opens no channel
\* (no transport, no connect, no listTools); a selected entry with url is
\* accepted, with or without command and args.
C11_RemoteEntryValidation ==
    (build = "index_auth" /\ serverConfig # <<>>) =>
        /\ (~HasUrl(serverConfig[1]) /\ ~HasCommandArgs(serverConfig[1])) =>
               /\ thrown = "InvalidConfig"
               /\ transport = <<>>
               /\ connectCalls = 0
               /\ listToolsCalls = 0
        /\ HasUrl(serverConfig[1]) =>
               /\ thrown # "InvalidConfig"
               /\ transport # <<>>
               /\ connectCalls = 1

C11_Witness ==
    /\ build = "index_auth"
    /\ serverConfig = << CommandOnly >>
    /\ thrown = "InvalidConfig"
    /\ pc = "exited"

\* C12 as stated: in src/index_auth.ts an entry with both styles present
\* is a configuration error, like an entry with neither.
C12_BothStylesRejected ==
    (build = "index_auth" /\ serverConfig # <<>>
       /\ HasUrl(serverConfig[1]) /\ HasCommandArgs(serverConfig[1])) =>
        thrown = "InvalidConfig"

\* C12 amended: in src/index_auth.ts an entry is accepted exactly when at
\* least one of the two styles is present; with both present the url style
\* is the one used; only an entry with neither is a configuration error.
C12_AtLeastOneStyle ==
    (build = "index_auth" /\ serverConfig # <<>>) =>
        /\ (transport # <<>>) <=> (HasUrl(serverConfig[1]) \/ HasCommandArgs(serverConfig[1]))
        /\ (thrown = "InvalidConfig") <=> (transport = <<>>)
        /\ (HasUrl(serverConfig[1]) /\ HasCommandArgs(serverConfig[1])) =>
               transport[1].args = << << <<"mcp-remote">>, serverConfig[1].url[1] >> >>

C12_Witness ==
    /\ build = "index_auth"
    /\ serverConfig = << UrlAndCommand >>
    /\ pc = "listing"

\* The value that follows the first occurrence of a flag on the command line
FirstAt(flag) == CHOOSE i \in 1..Len(argv) : argv[i] = flag /\ \A j \in 1..(i - 1) : argv[j] # flag
Supplied(flag) ==
    /\ \E i \in 1..Len(argv) : argv[i] = flag
    /\ FirstAt(flag) < Len(argv)
    /\ argv[FirstAt(flag) + 1] # <<>>
Unsupplied(flag) == IF Supplied(flag) THEN 0 ELSE 1

\* C13: a selected entry with command and args and no url is launched with
\* exactly that command and those args and without any credential prompt;
\* prompts happen only on the url path of src/index_auth.ts, one for each
\* credential that no (non-empty) argument supplied, and a supplied
\* credential is passed on as given.
C13_CommandEntryVerbatim ==
    /\ (serverConfig # <<>> /\ HasCommandArgs(serverConfig[1]) /\ ~HasUrl(serverConfig[1])) =>
           /\ transport = << [command |-> serverConfig[1].command,
                              args |-> serverConfig[1].args, env |-> <<>>] >>
           /\ promptCalls = 0
    /\ promptCalls > 0 =>
           /\ build = "index_auth"
           /\ transport # <<>>
           /\ transport[1].command = << <<"npx">> >>
    /\ (transport # <<>> /\ transport[1].env # <<>>) =>
           /\ promptCalls = Unsupplied(FlagUsername) + Unsupplied(FlagPassword)
           /\ Supplied(FlagUsername) =>
                  transport[1].env[1].GITHUB_USERNAME = argv[FirstAt(FlagUsername) + 1]
           /\ Supplied(FlagPassword) =>
                  transport[1].env[1].GITHUB_TOKEN = argv[FirstAt(FlagPassword) + 1]

C13_Witness ==
    /\ build = "index_auth"
    /\ serverConfig = << UrlOnly >>
    /\ argv = << FlagRemote, DOCS, FlagUsername, <<"u">> >>
    /\ promptCalls = 1
    /\ pc = "connecting"

HelpOrInvalid ==
    \/ Len(argv) = 0
    \/ argv[1] \in { <<"--help">>, <<"-h">> }
    \/ argv[1] \notin { <<"--local">>, <<"--remote">> }
    \/ Len(argv) = 1

\* C14: started with --help, -h, no arguments or an invalid combination,
\* main attempts no connect, never enters the interactive loop, and exits
\* with status 0.
C14_HelpOrInvalidExitsCleanly ==
    HelpOrInvalid =>
        /\ transport = <<>>
        /\ connectCalls = 0
        /\ listToolsCalls = 0
        /\ queriesStarted = 0
        /\ "MCP Client Started" \notin console
        /\ pc \in { "start", "closing", "exited" }
        /\ thrown = "none"
        /\ exitCode \in { <<>>, <<0>> }
        /\ pc = "exited" => exitCode = <<0>>

C14_Witness ==
    /\ argv = << FlagLocal >>
    /\ pc = "exited"
    /\ "Invalid arguments" \in console

DefaultLocations == << <<".mcp.json">>, <<"mcp-config.json">>, <<"~/.mcp/config.json">> >>

\* C15: without --config, loadConfig returns the content of the first of
\* .mcp.json, mcp-config.json and the per-user file that exists and parses,
\* skipping absent and unparseable files; when none qualifies it returns
\* the empty server map and the named lookup fails.
C15_FirstParseableConfigWins ==
    (config # <<>> /\ \A i \in 1..Len(argv) : argv[i] # <<"--config">>) =>
        LET good == { i \in 1..3 : /\ disk[1][DefaultLocations[i]].exists
                                   /\ disk[1][DefaultLocations[i]].parsed # <<>> }
        IN  IF good = {}
            THEN /\ config[1] = [mcpServers |-> <<{}>>]
                 /\ serverConfig = <<>>
                 /\ thrown = "ServerNotFound"
                 /\ transport = <<>>
            ELSE LET first == CHOOSE i \in good : \A j \in good : i <= j
                 IN  config[1] = disk[1][DefaultLocations[first]].parsed[1]

C15_Witness ==
    /\ config = << [mcpServers |-> << {<<DOCS, CommandArgs>>} >>] >>
    /\ disk[1][<<".mcp.json">>] = Unparseable
    /\ disk[1][<<"mcp-config.json">>] = Absent
    /\ disk[1][<<"~/.mcp/config.json">>] = Parseable(config[1])
    /\ pc = "connecting"

\* The positions of the tool_use blocks of a content list, in order
ToolUsePositions(content) == { i \in 1..Len(content) : content[i].type = "tool_use" }
NthToolUse(content, n) ==
    CHOOSE i \in ToolUsePositions(content) :
        Cardinality({ j \in ToolUsePositions(content) : j <= i }) = n

\* The output a returned query should show: the first response's texts and
\* rendered tool requests in block order, each tool request followed by the
\* first block of its follow-up response when that block is text
RECURSIVE ExpectedOutput(_, _, _)
ExpectedOutput(content, i, k) ==
    IF i > Len(content) THEN <<>>
    ELSE IF content[i].type = "text"
    THEN << content[i].text >> \o ExpectedOutput(content, i + 1, k)
    ELSE << rendered(content[i].name, content[i].input) >>
         \o (IF firsts[k].type = "text" THEN << firsts[k].text >> ELSE <<>>)
         \o ExpectedOutput(content, i + 1, k + 1)

\* C16: a first response with N tool-request blocks leads, when the query
\* returns, to exactly N tool calls and N follow-up model calls, issued in
\* block order and one after the other: the j-th tool call is followed by the
\* j-th follow-up and that by the next tool call; while a call is pending no
\* other is issued; each follow-up adds to the output only its first block,
\* and only when that block is text.
C16_OneFollowUpPerToolBlock ==
    /\ qstatus \in { "running", "done" } =>
           /\ \A i \in 1..Len(calls) : IsModelCall(calls[i]) <=> (i % 2 = 1)
           /\ pc = "awaitTool" => Len(calls) = 2 * Len(firsts) + 2
           /\ pc = "awaitFollowUp" => Len(calls) = 2 * Len(firsts) + 3
           /\ \A j \in 1..ToolCallCount :
                  /\ j <= ToolUseCount(response)
                  /\ calls[2 * j].name = response[NthToolUse(response, j)].name
                  /\ calls[2 * j].arguments = response[NthToolUse(response, j)].input
    /\ qstatus = "done" =>
           /\ ToolCallCount = ToolUseCount(response)
           /\ ModelCallCount = 1 + ToolUseCount(response)
           /\ Len(firsts) = ToolUseCount(response)
           /\ answer = << join(ExpectedOutput(response, 1, 1), NL) >>

C16_Witness ==
    /\ qstatus = "done"
    /\ ToolUseCount(response) = 2
    /\ response[1].name # response[2].name
    /\ firsts[1].type = "text"
    /\ firsts[2].type = "tool_use"

RequestCount == Len(SelectSeq(messages, IsToolRequest))
ResultCount == Len(SelectSeq(messages, IsToolResult))

\* C17 as stated: at the moment the tool is invoked the transcript already
\* ends with the assistant message carrying the request being served.
C17_RequestRecordedBeforeInvoke ==
    pc = "awaitTool" =>
        /\ Len(messages) >= 2
        /\ IsToolRequest(messages[Len(messages)])
        /\ messages[Len(messages)].content.blocks[1].id = response[idx].id

\* C17 amended: the tool is invoked first; while it is pending, and if it
\* fails, the transcript holds neither the request nor the result of that
\* call, only the pairs of the earlier calls; once it has returned, the
\* assistant request message and then the user result message are appended
\* together, before the follow-up model call.
C17_InvokeThenRecordBoth ==
    /\ (pc = "awaitTool" \/ (qstatus = "failed" /\ thrown = "ToolFailed")) =>
           /\ RequestCount = ToolCallCount - 1
           /\ ResultCount = ToolCallCount - 1
           /\ Len(messages) = 2 * ToolCallCount - 1
    /\ pc = "awaitFollowUp" =>
           /\ RequestCount = ToolCallCount
           /\ ResultCount = ToolCallCount
           /\ Len(messages) = 2 * ToolCallCount + 1
           /\ IsToolRequest(messages[Len(messages) - 1])
           /\ messages[Len(messages) - 1].content.blocks[1] = response[idx]
           /\ IsToolResult(messages[Len(messages)])
           /\ messages[Len(messages)].role = "user"
           /\ calls[Len(calls)].transcript = Len(messages)

C17_Witness ==
    /\ pc = "awaitFollowUp"
    /\ Len(messages) = 5

\* C18 as stated: no model call is issued between the handling of two
\* tool-request blocks of the same response.
C18_NoModelCallBetweenTools ==
    \A i \in 1..Len(calls) : \A j \in (i + 1)..Len(calls) :
        (IsToolCall(calls[i]) /\ IsToolCall(calls[j])) =>
            \A k \in (i + 1)..(j - 1) : ~IsModelCall(calls[k])

\* C18 amended: a follow-up model call is issued after every tool-request
\* block: between two consecutive tool calls of one response there is
\* exactly one model call, and its reply has arrived before the next tool
\* is invoked.
C18_FollowUpAfterEachTool ==
    /\ \A i \in 1..Len(calls) : \A j \in (i + 1)..Len(calls) :
           (/\ IsToolCall(calls[i])
            /\ IsToolCall(calls[j])
            /\ \A k \in (i + 1)..(j - 1) : ~IsToolCall(calls[k])) =>
               /\ j = i + 2
               /\ IsModelCall(calls[i + 1])
    /\ pc = "awaitTool" => Len(firsts) = ToolCallCount - 1

C18_Witness ==
    /\ pc = "awaitTool"
    /\ ToolCallCount = 2
    /\ Len(firsts) = 1

\* C19: listTools is called at most once in a session, only after connect
\* has succeeded and never after it failed; a query is only ever started
\* after that one call; the tool set changes only when listTools returns,
\* and every model call of every query carries the session's tool set.
C19_ToolsDiscoveredOnce ==
    /\ [](/\ listToolsCalls <= 1
          /\ listToolsCalls = 1 => (connectCalls = 1 /\ pc # "connecting")
          /\ thrown = "ConnectFailed" => listToolsCalls = 0
          /\ pc = "listing" => (queriesStarted = 0 /\ calls = <<>>)
          /\ (queriesStarted > 0 \/ pc \in { "prompt", "awaitModel", "awaitTool", "awaitFollowUp" }) =>
                 listToolsCalls = 1
          /\ \A i \in 1..Len(calls) : IsModelCall(calls[i]) => calls[i].tools = tools)
    /\ [][pc # "listing" => tools' = tools]_vars

C19_Witness ==
    /\ queriesStarted = 2
    /\ Len(calls) = 3
    /\ tools = << "t1", "t2" >>
    /\ listToolsCalls = 1

CompletedToolCalls ==
    IF pc = "awaitTool" \/ thrown = "ToolFailed" THEN ToolCallCount - 1 ELSE ToolCallCount

IsPrefix(s, t) == Len(s) <= Len(t) /\ \A i \in 1..Len(s) : s[i] = t[i]

\* C20: while a query exists its transcript is the user message holding the
\* query followed by one (assistant tool request, user tool result) pair per
\* completed tool call, so its length is 1 + 2k and no entry after the first
\* holds text; and within a query every step leaves the old transcript as a
\* prefix of the new one.
C20_TranscriptShape ==
    /\ [](qstatus # "none" =>
            /\ Len(messages) = 1 + 2 * CompletedToolCalls
            /\ messages[1] = UserText(message)
            /\ \A i \in 1..CompletedToolCalls :
                   /\ IsToolRequest(messages[2 * i])
                   /\ Len(messages[2 * i].content.blocks) = 1
                   /\ IsToolResult(messages[2 * i + 1])
                   /\ messages[2 * i + 1].role = "user"
                   /\ Len(messages[2 * i + 1].content.blocks) = 1)
    /\ [][(qstatus # "none" /\ qstatus' # "none" /\ queriesStarted' = queriesStarted) =>
              IsPrefix(messages, messages')]_vars

C20_Witness ==
    /\ qstatus = "done"
    /\ Len(messages) = 5
    /\ firsts[1].type = "text"
    /\ firsts[2].type = "text"

\* C22: when a follow-up model response has no block the query aborts with
\* an error and returns no answer, although the tool call it followed was
\* made and both transcript entries of that tool request were appended.
C22_EmptyFollowUpAborts ==
    (lastEmpty /\ ToolCallCount > 0) =>
        /\ thrown = "TypeError"
        /\ qstatus = "failed"
        /\ answer = <<>>
        /\ pc \in { "closing", "exited" }
        /\ ModelCallCount = ToolCallCount + 1
        /\ Len(firsts) = ToolCallCount - 1
        /\ Len(messages) = 1 + 2 * ToolCallCount
        /\ IsToolRequest(messages[Len(messages) - 1])
        /\ messages[Len(messages) - 1].content.blocks[1] = response[idx]
        /\ IsToolResult(messages[Len(messages)])
        /\ messages[Len(messages)].content.blocks[1].tool_use_id = response[idx].id

C22_Witness ==
    /\ lastEmpty
    /\ thrown = "TypeError"
    /\ ToolCallCount = 1
    /\ ToolUseCount(response) = 2
    /\ Len(messages) = 3

\* C21 as stated: whenever processQuery has ended and no model call and no
\* tool call failed, it has made exactly 1 + N model calls and N tool calls,
\* N being the number of tool-request blocks of the first response, whatever
\* the follow-up responses held.
C21_CallCountsWhenNoCallFails ==
    (qstatus \in { "done", "failed" } /\ thrown \notin { "ModelFailed", "ToolFailed" }) =>
        /\ ModelCallCount = 1 + ToolUseCount(response)
        /\ ToolCallCount = ToolUseCount(response)

\* C21 amended: when every model call and tool call settles, processQuery
\* ends; it never makes more than N tool calls and 1 + N model calls; when
\* it returns it has made exactly N and 1 + N, whatever blocks the follow-up
\* responses held; when it ends on a follow-up response without any block
\* it has made j tool calls and 1 + j model calls for some 1 <= j <= N.
C21_TerminatesWithBoundedCalls ==
    /\ [](qstatus # "none" =>
            /\ ToolCallCount <= ToolUseCount(response)
            /\ ModelCallCount <= 1 + ToolUseCount(response)
            /\ qstatus = "done" =>
                   /\ ModelCallCount = 1 + ToolUseCount(response)
                   /\ ToolCallCount = ToolUseCount(response)
            /\ (qstatus = "failed" /\ thrown = "TypeError") =>
                   /\ ToolCallCount >= 1
                   /\ ModelCallCount = 1 + ToolCallCount)
    /\ (qstatus = "running" ~> qstatus # "running")

C21_Witness ==
    /\ qstatus = "done"
    /\ ToolUseCount(response) = 2
    /\ firsts[1].type = "tool_use"
    /\ firsts[2].type = "tool_use"
    /\ lastHadToolUse

====
